---- MODULE Spec2Model ----
(***************************************************************************)
(* gemini-cli-mcp-server (src/gemini-cli-mcp-server/mod.ts): the result    *)
(* cache, the search history and executeGeminiSearch, with the tool and    *)
(* resource handlers that read or clear them.                              *)
(*                                                                         *)
(* A query is a string in run-length form: a sequence of runs, each a      *)
(* character and the number of times it is repeated, adjacent runs of      *)
(* different characters.  Its length and trim() are computed from the      *)
(* runs.  A message is a sequence of tokens none of which contains the     *)
(* separator ": ", which is a token of its own.  The text the external     *)
(* program prints on its standard output is opaque and is a plain string.  *)
(*                                                                         *)
(* executeGeminiSearch is an async function: it runs to its await of       *)
(* command.output() in one step and resumes in a later one, and any other  *)
(* call may run in between.                                                *)
(***************************************************************************)
EXTENDS Integers, Sequences, FiniteSets, TLC

\* ------------------------------------------------------------ constants

CACHE_TTL == 3600000

MS_PER_MINUTE == 60000

\* the records gemini://history/recent shows
RECENT_SHOWN == 20

MAX_HISTORY == 100

MAX_QUERY_LENGTH == 500

\* ErrorType
GEMINI_NOT_FOUND == "GEMINI_NOT_FOUND"

GEMINI_EXECUTION_ERROR == "GEMINI_EXECUTION_ERROR"

INVALID_QUERY == "INVALID_QUERY"

ErrorType == {GEMINI_NOT_FOUND, GEMINI_EXECUTION_ERROR, INVALID_QUERY, "CACHE_ERROR"}

\* --------------------------------------------------------------- bounds

\* executeGeminiSearch calls that pass validation, per behaviour
MaxSearches == 2

\* clock advances, per behaviour
MaxTicks == 1

\* calls awaiting command.output() at the same time
MaxInflight == 2

\* ---------------------------------------------------------------- inputs

SEP == ": "

WhiteSpace == {" "}

\* c.repeat(n), n >= 1
Repeat(c, n) == <<[ch |-> c, n |-> n]>>

QEmpty == <<>>

QBlank == Repeat(" ", 3)

QA == Repeat("a", 1)

QMax == Repeat("a", MAX_QUERY_LENGTH)

QOver == Repeat("a", MAX_QUERY_LENGTH + 1)

Queries == {QEmpty, QBlank, QA, QMax, QOver}

\* "A", "a " and " a"
QUpper == Repeat("A", 1)

QTrailing == QA \o Repeat(" ", 1)

QLeading == Repeat(" ", 1) \o QA

\* queries that differ in letter case or in whitespace at an end only
KeyQueries == {QA, QUpper, QTrailing, QLeading}

\* the optional query argument of clear_gemini_search_cache: {} when omitted
ClearArgs == {{}, {QEmpty}, {QA}}

\* request.params.arguments of search_web_with_gemini: a record of the
\* arguments given, useCache or query possibly missing
SearchArguments ==
    [query : Queries, useCache : BOOLEAN] \cup [query : Queries]
    \cup [useCache : {TRUE}]

\* request.params.name values no case of the handler names
UnknownTools == {"delete_everything"}

\* the catalogs of the three list handlers, by name or URI
ToolNames ==
    <<"search_web_with_gemini", "clear_gemini_search_cache", "view_search_history">>

ResourceUris == <<"gemini://cache/status", "gemini://history/recent">>

PromptNames == <<"search_analysis", "comparative_search">>

\* request.params.uri values no case of the read handler names
UnknownUris == {"gemini://cache/entries"}

\* request.params.name values no case of the prompt handler names
UnknownPrompts == {"summarize"}

\* request.params.arguments of a get-prompt request
PromptArguments == {<<>>, [topic |-> "t"], [items |-> "i", criteria |-> "c"]}

\* whether server.connect(transport) resolves
ConnectOutcomes == {"resolved", "rejected"}

\* the limit argument of view_search_history
Limits == {2}

\* standard-output texts of the external program
Results == {"r1", "r2"}

\* standard-error texts of the external program
StderrTexts == {<<"API rate limit exceeded">>}

\* standard-error texts without and with the separator, at either end and
\* twice
StderrCases ==
    {<<>>, <<"rate limit">>, <<"Error", SEP, "quota exceeded">>,
     <<SEP, "denied">>, <<"denied", SEP>>, <<SEP>>,
     <<"HTTP 429", SEP, "Error", SEP, "quota exceeded">>}

\* the message of the Deno.errors.NotFound that command.output() throws
NotFoundText == <<"gemini">>

\* command.output() resolving with a nonzero exit code
NonzeroExits == [kind : {"exit"}, code : {1, 2}, stdout : {""}, stderr : StderrCases]

\* what awaiting command.output() can yield
Outputs ==
    [kind : {"exit"}, code : {0}, stdout : Results, stderr : {<<>>}]
    \cup [kind : {"exit"}, code : {1}, stdout : {""}, stderr : StderrTexts]
    \cup [kind : {"NotFound"}, message : {NotFoundText}]

\* elapsed milliseconds between two steps
Deltas == {CACHE_TTL - 1, CACHE_TTL}

\* History lengths the server is started from: n earlier searches for QA with
\* the default useCache, one per millisecond, the first of which printed "r1"
SeedLengths == {0, 1}

\* the same, for a History at its bound
FullSeedLengths == {MAX_HISTORY - 1, MAX_HISTORY}

\* the same, for a History around the length history/recent shows
RecentSeedLengths == {RECENT_SHOWN - 1, RECENT_SHOWN}

\* ---------------------------------------------------------------- state

VARIABLES
    searchCache,    \* Map<string, CacheEntry>: a function on its keys
    searchHistory,  \* SearchLog[]
    now,            \* Date.now()
    inflight,       \* the calls awaiting command.output(), in start order
    callCount,      \* command.output() calls made
    resp,           \* what the latest call did: its log line and outcome
    nsearch,        \* executeGeminiSearch calls that passed validation
    ticks           \* clock advances

vars == <<searchCache, searchHistory, now, inflight, callCount, resp, nsearch, ticks>>

\* ------------------------------------------------------------- helpers

\* String.prototype.length
RECURSIVE Length(_)
Length(s) == IF s = <<>> THEN 0 ELSE Head(s).n + Length(Tail(s))

RECURSIVE TrimStart(_)
TrimStart(s) ==
    IF s # <<>> /\ Head(s).ch \in WhiteSpace THEN TrimStart(Tail(s)) ELSE s

RECURSIVE TrimEnd(_)
TrimEnd(s) ==
    IF s # <<>> /\ s[Len(s)].ch \in WhiteSpace
    THEN TrimEnd(SubSeq(s, 1, Len(s) - 1))
    ELSE s

\* String.prototype.trim
Trim(s) == TrimEnd(TrimStart(s))

\* `${type}: ${detail}`
Message(type, detail) == <<type, SEP>> \o detail

EmptyQueryMessage == Message(INVALID_QUERY, <<"Search query is empty">>)

TooLongMessage ==
    Message(INVALID_QUERY, <<"Search query is too long (max 500 characters)">>)

NotFoundMessage ==
    Message(GEMINI_NOT_FOUND,
            <<"gemini-cli not found. Please ensure it is installed and included in your PATH.">>)

ValidationErrorOffByOne(query) ==
    IF query = <<>> \/ Length(Trim(query)) = 0 THEN EmptyQueryMessage
    ELSE IF Length(query) >= MAX_QUERY_LENGTH THEN TooLongMessage
    ELSE <<>>

\* input validation of executeGeminiSearch: the message thrown, <<>> if none
ValidationError(query) ==
    IF query = <<>> \/ Length(Trim(query)) = 0 THEN EmptyQueryMessage
    ELSE IF Length(query) > MAX_QUERY_LENGTH THEN TooLongMessage
    ELSE <<>>

CacheHitInclusive(cache, query, t) ==
    /\ query \in DOMAIN cache
    /\ t - cache[query].timestamp <= CACHE_TTL

\* cached && Date.now() - cached.timestamp < CACHE_TTL
CacheHit(cache, query, t) ==
    /\ query \in DOMAIN cache
    /\ t - cache[query].timestamp < CACHE_TTL

CacheSetIfAbsent(cache, query, result, t) ==
    [k \in DOMAIN cache \cup {query} |->
        IF k \in DOMAIN cache THEN cache[k] ELSE [result |-> result, timestamp |-> t]]

CacheSetTrimmed(cache, query, result, t) ==
    [k \in DOMAIN cache \cup {Trim(query)} |->
        IF k = Trim(query) THEN [result |-> result, timestamp |-> t] ELSE cache[k]]

\* searchCache.set(query, {result, timestamp})
CacheSet(cache, query, result, t) ==
    [k \in DOMAIN cache \cup {query} |->
        IF k = query THEN [result |-> result, timestamp |-> t] ELSE cache[k]]

\* searchCache.delete(query)
CacheDelete(cache, query) == [k \in DOMAIN cache \ {query} |-> cache[k]]

RecordSuccessNewestFirst(history, query, t) ==
    LET pushed == <<[query |-> query, timestamp |-> t, success |-> TRUE]>> \o history
    IN  IF Len(pushed) > MAX_HISTORY THEN SubSeq(pushed, 1, MAX_HISTORY) ELSE pushed

\* the success paths: push, then shift when over MAX_HISTORY
RecordSuccess(history, query, t) ==
    LET pushed == Append(history, [query |-> query, timestamp |-> t, success |-> TRUE])
    IN  IF Len(pushed) > MAX_HISTORY THEN Tail(pushed) ELSE pushed

RecordErrorDropped(history, query, t, message) == history

\* the catch path: push only
RecordError(history, query, t, message) ==
    Append(history,
           [query |-> query, timestamp |-> t, success |-> FALSE, error |-> message])

UseCachedAlways(useCache, cache, query, t) == CacheHit(cache, query, t)

UseCachedNever(useCache, cache, query, t) == FALSE

\* if (useCache) { cached && ... }
UseCached(useCache, cache, query, t) == useCache /\ CacheHit(cache, query, t)

\* command.output() resolved with exit code 0
Succeeded(out) == out.kind = "exit" /\ out.code = 0

CaughtAfterWrapping(out) ==
    IF out.kind = "NotFound" THEN NotFoundMessage
    ELSE Message(GEMINI_EXECUTION_ERROR, out.stderr)

\* the error the catch block receives: the one command.output() threw, or the
\* GEMINI_EXECUTION_ERROR thrown on a nonzero exit code
Caught(out) ==
    IF out.kind = "NotFound" THEN out.message
    ELSE Message(GEMINI_EXECUTION_ERROR, out.stderr)

\* the error the catch block throws on
Thrown(out) == IF out.kind = "NotFound" THEN NotFoundMessage ELSE Caught(out)

StoreResultBeforeExitCheck(cache, call, out, t) ==
    IF call.useCache
    THEN CacheSet(cache, call.query, IF out.kind = "exit" THEN out.stdout ELSE "", t)
    ELSE cache

StoreResultIgnoringUseCache(cache, call, out, t) ==
    IF Succeeded(out)
    THEN CacheSet(cache, call.query, out.stdout, t)
    ELSE cache

\* the cache write of the try block, reached on exit code 0 with useCache
StoreResult(cache, call, out, t) ==
    IF Succeeded(out) /\ call.useCache
    THEN CacheSet(cache, call.query, out.stdout, t)
    ELSE cache

RecordOutcomeFailuresOnly(history, call, out, t) ==
    IF Succeeded(out) THEN history
    ELSE RecordError(history, call.query, t, Caught(out))

\* the History record of a settled invocation
RecordOutcome(history, call, out, t) ==
    IF Succeeded(out) THEN RecordSuccess(history, call.query, t)
    ELSE RecordError(history, call.query, t, Caught(out))

RemoveAt(s, i) == SubSeq(s, 1, i - 1) \o SubSeq(s, i + 1, Len(s))

SeedHistory(n) == [i \in 1..n |-> [query |-> QA, timestamp |-> i, success |-> TRUE]]

SeedCache(n) == IF n = 0 THEN <<>> ELSE CacheSet(<<>>, QA, "r1", 1)

NoResp == [op |-> "none"]

\* Array.prototype.filter((log) => log.success)
IsSuccess(log) == log.success

FilterSuccess(s) == SelectSeq(s, IsSuccess)

SliceFirst(s, n) == SubSeq(s, 1, IF Len(s) > n THEN n ELSE Len(s))

\* Array.prototype.slice(-n), n >= 1
SliceLast(s, n) == SubSeq(s, IF Len(s) > n THEN Len(s) - n + 1 ELSE 1, Len(s))

Min(a, b) == IF a < b THEN a ELSE b

\* Array.prototype.reverse
Reverse(s) == [i \in 1..Len(s) |-> s[Len(s) + 1 - i]]

\* new Date(timestamp).toISOString()
ISOString(t) == [iso |-> t]

\* new Date(timestamp).toLocaleString("en-US"): to the second
LocaleString(t) == [locale |-> t \div 1000]

\* ------------------------------------------------------------------ Init

InitFrom(lengths) ==
    /\ \E n \in lengths :
        /\ searchHistory = SeedHistory(n)
        /\ now = n
        /\ searchCache = SeedCache(n)
    /\ inflight = <<>>
    /\ callCount = 0
    /\ resp = NoResp
    /\ nsearch = 0
    /\ ticks = 0

Init == InitFrom(SeedLengths)

InitFull == InitFrom(FullSeedLengths)

InitRecent == InitFrom(RecentSeedLengths)

\* --------------------------------------------------------------- actions

RejectRecorded(query, useCache, err) ==
    /\ resp' = [op |-> "search", query |-> query, useCache |-> useCache,
                log |-> "none", outcome |-> "throw", value |-> err]
    /\ searchHistory' = RecordError(searchHistory, query, now, err)
    /\ UNCHANGED <<searchCache, now, inflight, callCount, nsearch, ticks>>

\* the input validation throws: nothing but the rejection happens
Reject(query, useCache, err) ==
    /\ resp' = [op |-> "search", query |-> query, useCache |-> useCache,
                log |-> "none", outcome |-> "throw", value |-> err]
    /\ UNCHANGED <<searchCache, searchHistory, now, inflight, callCount, nsearch, ticks>>

ReturnCachedRefreshing(query, useCache) ==
    /\ searchHistory' = RecordSuccess(searchHistory, query, now)
    /\ searchCache' = CacheSet(searchCache, query, searchCache[query].result, now)
    /\ resp' = [op |-> "search", query |-> query, useCache |-> useCache,
                log |-> "Cache Hit", outcome |-> "return",
                value |-> searchCache[query].result]
    /\ UNCHANGED <<now, inflight, callCount, ticks>>

\* the cache check succeeds: the entry is returned and the hit recorded
ReturnCached(query, useCache) ==
    /\ searchHistory' = RecordSuccess(searchHistory, query, now)
    /\ resp' = [op |-> "search", query |-> query, useCache |-> useCache,
                log |-> "Cache Hit", outcome |-> "return",
                value |-> searchCache[query].result]
    /\ UNCHANGED <<searchCache, now, inflight, callCount, ticks>>

\* new Deno.Command("gemini", ...) and the call of command.output(), awaited
Invoke(query, useCache) ==
    /\ Len(inflight) < MaxInflight
    /\ inflight' = Append(inflight, [query |-> query, useCache |-> useCache])
    /\ callCount' = callCount + 1
    /\ resp' = [op |-> "search", query |-> query, useCache |-> useCache,
                log |-> "Gemini Search", outcome |-> "await"]
    /\ UNCHANGED <<searchCache, searchHistory, now, ticks>>

\* executeGeminiSearch(query, useCache) up to its return, throw or await
executeGeminiSearch(query, useCache) ==
    LET err == ValidationError(query) IN
    IF err # <<>> THEN Reject(query, useCache, err)
    ELSE
        /\ nsearch < MaxSearches
        /\ nsearch' = nsearch + 1
        /\ IF UseCached(useCache, searchCache, query, now)
           THEN ReturnCached(query, useCache)
           ELSE Invoke(query, useCache)

commandOutputUnanswered(i, out) ==
    LET call == inflight[i] IN
    /\ inflight' = RemoveAt(inflight, i)
    /\ searchCache' = StoreResult(searchCache, call, out, now)
    /\ searchHistory' = RecordOutcome(searchHistory, call, out, now)
    /\ UNCHANGED <<resp, now, callCount, nsearch, ticks>>

commandOutputCacheFirst(i, out) ==
    LET call == inflight[i] IN
    IF StoreResult(searchCache, call, out, now) # searchCache
    THEN /\ searchCache' = StoreResult(searchCache, call, out, now)
         /\ UNCHANGED <<searchHistory, inflight, resp, now, callCount, nsearch, ticks>>
    ELSE /\ inflight' = RemoveAt(inflight, i)
         /\ searchHistory' = RecordOutcome(searchHistory, call, out, now)
         /\ resp' = [op |-> "search", query |-> call.query, useCache |-> call.useCache,
                     log |-> "Gemini Search",
                     outcome |-> IF Succeeded(out) THEN "return" ELSE "throw",
                     value |-> IF Succeeded(out) THEN out.stdout ELSE Thrown(out)]
         /\ UNCHANGED <<searchCache, now, callCount, nsearch, ticks>>

\* the rest of executeGeminiSearch, once command.output() has settled
commandOutput(i, out) ==
    LET call == inflight[i] IN
    /\ inflight' = RemoveAt(inflight, i)
    /\ searchCache' = StoreResult(searchCache, call, out, now)
    /\ searchHistory' = RecordOutcome(searchHistory, call, out, now)
    /\ resp' = [op |-> "search", query |-> call.query, useCache |-> call.useCache,
                log |-> "Gemini Search",
                outcome |-> IF Succeeded(out) THEN "return" ELSE "throw",
                value |-> IF Succeeded(out) THEN out.stdout ELSE Thrown(out)]
    /\ UNCHANGED <<now, callCount, nsearch, ticks>>

clearCacheSizeRead(args) ==
    /\ IF args # {} /\ (CHOOSE q \in args : TRUE) # <<>> THEN
          LET query == CHOOSE q \in args : TRUE
              existed == query \in DOMAIN searchCache
          IN  /\ searchCache' = CacheDelete(searchCache, query)
              /\ resp' = [op |-> "clear", args |-> args, existed |-> existed,
                          text |-> IF existed THEN "Cleared cache for query"
                                   ELSE "was not found in cache"]
       ELSE
          /\ searchCache' = <<>>
          /\ resp' = [op |-> "clear", args |-> args,
                      size |-> Cardinality(DOMAIN searchCache'),
                      text |-> "Cleared all cache"]
    /\ UNCHANGED <<searchHistory, now, inflight, callCount, nsearch, ticks>>

clearCacheAndHistory(args) ==
    /\ IF args # {} /\ (CHOOSE q \in args : TRUE) # <<>> THEN
          LET query == CHOOSE q \in args : TRUE
              existed == query \in DOMAIN searchCache
          IN  /\ searchCache' = CacheDelete(searchCache, query)
              /\ searchHistory' = searchHistory
              /\ resp' = [op |-> "clear", args |-> args, existed |-> existed,
                          text |-> IF existed THEN "Cleared cache for query"
                                   ELSE "was not found in cache"]
       ELSE
          LET size == Cardinality(DOMAIN searchCache)
          IN  /\ searchCache' = <<>>
              /\ searchHistory' = <<>>
              /\ resp' = [op |-> "clear", args |-> args, size |-> size,
                          text |-> "Cleared all cache"]
    /\ UNCHANGED <<now, inflight, callCount, nsearch, ticks>>

\* tool clear_gemini_search_cache
clearCache(args) ==
    /\ IF args # {} /\ (CHOOSE q \in args : TRUE) # <<>> THEN
          LET query == CHOOSE q \in args : TRUE
              existed == query \in DOMAIN searchCache
          IN  /\ searchCache' = CacheDelete(searchCache, query)
              /\ resp' = [op |-> "clear", args |-> args, existed |-> existed,
                          text |-> IF existed THEN "Cleared cache for query"
                                   ELSE "was not found in cache"]
       ELSE
          LET size == Cardinality(DOMAIN searchCache)
          IN  /\ searchCache' = <<>>
              /\ resp' = [op |-> "clear", args |-> args, size |-> size,
                          text |-> "Cleared all cache"]
    /\ UNCHANGED <<searchHistory, now, inflight, callCount, nsearch, ticks>>

viewHistoryLimitThenFilter(limit, includeErrors) ==
    LET sliced == SliceLast(searchHistory, limit)
        recent == Reverse(IF includeErrors THEN sliced ELSE FilterSuccess(sliced))
        formatted == [i \in 1..Len(recent) |->
                        [n |-> i,
                         status |-> IF recent[i].success THEN "ok" ELSE "failed",
                         time |-> LocaleString(recent[i].timestamp),
                         query |-> recent[i].query,
                         error |-> IF "error" \in DOMAIN recent[i] /\ recent[i].error # <<>>
                                   THEN recent[i].error ELSE <<>>]]
    IN
    /\ resp' = [op |-> "view", limit |-> limit, includeErrors |-> includeErrors,
                recent |-> recent,
                text |-> IF formatted = <<>> THEN <<[message |-> "No search history found"]>>
                         ELSE formatted]
    /\ UNCHANGED <<searchCache, searchHistory, now, inflight, callCount, nsearch, ticks>>

\* tool view_search_history
viewHistory(limit, includeErrors) ==
    LET filtered == IF includeErrors THEN searchHistory ELSE FilterSuccess(searchHistory)
        recent == Reverse(SliceLast(filtered, limit))
        formatted == [i \in 1..Len(recent) |->
                        [n |-> i,
                         status |-> IF recent[i].success THEN "ok" ELSE "failed",
                         time |-> LocaleString(recent[i].timestamp),
                         query |-> recent[i].query,
                         error |-> IF "error" \in DOMAIN recent[i] /\ recent[i].error # <<>>
                                   THEN recent[i].error ELSE <<>>]]
    IN
    /\ resp' = [op |-> "view", limit |-> limit, includeErrors |-> includeErrors,
                recent |-> recent,
                text |-> IF formatted = <<>> THEN <<[message |-> "No search history found"]>>
                         ELSE formatted]
    /\ UNCHANGED <<searchCache, searchHistory, now, inflight, callCount, nsearch, ticks>>

\* resource gemini://cache/status; the entries are listed as a set
readCacheStatus ==
    /\ resp' = [op |-> "read", uri |-> "gemini://cache/status",
                totalEntries |-> Cardinality(DOMAIN searchCache),
                ttlMinutes |-> CACHE_TTL \div MS_PER_MINUTE,
                entries |-> {[query |-> q,
                              timestamp |-> ISOString(searchCache[q].timestamp),
                              ageMinutes |-> (now - searchCache[q].timestamp) \div MS_PER_MINUTE,
                              expires |-> ISOString(searchCache[q].timestamp + CACHE_TTL)]
                             : q \in DOMAIN searchCache}]
    /\ UNCHANGED <<searchCache, searchHistory, now, inflight, callCount, nsearch, ticks>>

readHistoryRecentInPlace ==
    LET recent == SubSeq(Reverse(searchHistory), 1, Min(RECENT_SHOWN, Len(searchHistory)))
    IN
    /\ searchHistory' = Reverse(searchHistory)
    /\ resp' = [op |-> "read", uri |-> "gemini://history/recent",
                total |-> Len(searchHistory),
                showing |-> Len(recent),
                history |-> [i \in 1..Len(recent) |->
                               [log |-> recent[i],
                                timestamp |-> ISOString(recent[i].timestamp)]]]
    /\ UNCHANGED <<searchCache, now, inflight, callCount, nsearch, ticks>>

\* resource gemini://history/recent
readHistoryRecent ==
    LET recent == Reverse(SliceLast(searchHistory, RECENT_SHOWN))
    IN
    /\ resp' = [op |-> "read", uri |-> "gemini://history/recent",
                total |-> Len(searchHistory),
                showing |-> Len(recent),
                history |-> [i \in 1..Len(recent) |->
                               [log |-> recent[i],
                                timestamp |-> ISOString(recent[i].timestamp)]]]
    /\ UNCHANGED <<searchCache, searchHistory, now, inflight, callCount, nsearch, ticks>>

\* the clock advances
Tick(d) ==
    /\ ticks < MaxTicks
    /\ ticks' = ticks + 1
    /\ now' = now + d
    /\ UNCHANGED <<searchCache, searchHistory, inflight, callCount, resp, nsearch>>

\* ------------------------------------------------------ tool call handler

\* the message of the ZodError of one issue
ZodMessage(code, text) == <<"code", SEP, code, "message", SEP, text>>

\* SearchWebSchema.parse: the message of the error thrown, <<>> if none
SearchWebSchemaError(arguments) ==
    IF "query" \notin DOMAIN arguments THEN ZodMessage("invalid_type", "Required")
    ELSE IF Length(arguments.query) < 1
         THEN ZodMessage("too_small", "Search query is required")
    ELSE IF Length(arguments.query) > MAX_QUERY_LENGTH
         THEN ZodMessage("too_big", "Search query must be 500 characters or less")
    ELSE <<>>

\* useCache: z.boolean().optional().default(true)
UseCacheOf(arguments) ==
    IF "useCache" \in DOMAIN arguments THEN arguments.useCache ELSE TRUE

\* the position of the first separator of a message, 0 if it has none
FirstSep(m) ==
    IF \E i \in 1..Len(m) : m[i] = SEP
    THEN CHOOSE i \in 1..Len(m) : m[i] = SEP /\ \A j \in 1..(i - 1) : m[j] # SEP
    ELSE 0

\* String.prototype.split(": "): the pieces between the separators
RECURSIVE Split(_)
Split(m) ==
    IF FirstSep(m) = 0 THEN <<m>>
    ELSE <<SubSeq(m, 1, FirstSep(m) - 1)>> \o Split(SubSeq(m, FirstSep(m) + 1, Len(m)))

\* Array.prototype.join(": ")
RECURSIVE Join(_)
Join(parts) ==
    IF parts = <<>> THEN <<>>
    ELSE IF Len(parts) = 1 THEN parts[1]
    ELSE parts[1] \o <<SEP>> \o Join(Tail(parts))

NotFoundSolution == "1. Check if gemini-cli is installed"

InvalidQuerySolution == "1. Check that query is not empty"

OtherSolution == "1. Check if gemini-cli works properly"

\* the Solution lines, chosen by errorType
Solution(errorType) ==
    IF errorType = <<GEMINI_NOT_FOUND>> THEN NotFoundSolution
    ELSE IF errorType = <<INVALID_QUERY>> THEN InvalidQuerySolution
    ELSE OtherSolution

ErrorResponseSecondPart(errorMessage) ==
    LET parts == Split(errorMessage)
        errorType == Head(parts)
        messageParts == Tail(parts)
    IN  [isError |-> TRUE,
         text |-> [head |-> "An error occurred",
                   Type |-> errorType,
                   Details |-> IF messageParts = <<>> THEN <<>> ELSE Head(messageParts),
                   Solution |-> Solution(errorType)]]

\* the response of the catch around executeGeminiSearch
ErrorResponse(errorMessage) ==
    LET parts == Split(errorMessage)
        errorType == Head(parts)
        messageParts == Tail(parts)
    IN  [isError |-> TRUE,
         text |-> [head |-> "An error occurred",
                   Type |-> errorType,
                   Details |-> Join(messageParts),
                   Solution |-> Solution(errorType)]]

\* the response of the catch around the switch
InternalErrorResponse(errorMessage) ==
    [isError |-> TRUE, text |-> [head |-> "Internal error", message |-> errorMessage]]

\* the response of the CallToolRequestSchema handler to the call that r is the
\* outcome of
ToolResponse(r) ==
    IF r.op = "tool" THEN InternalErrorResponse(r.error)
    ELSE IF r.op = "search" /\ r.outcome = "throw" THEN ErrorResponse(r.value)
    ELSE IF r.op = "search" /\ r.outcome = "return"
         THEN [isError |-> FALSE, text |-> r.value]
    ELSE IF r.op \in {"clear", "view"} THEN [isError |-> FALSE, text |-> r.text]
    ELSE [isError |-> FALSE]

InternalErrorExits(name, arguments, errorMessage) ==
    /\ resp' = [op |-> "exit", code |-> 1]
    /\ UNCHANGED <<searchCache, searchHistory, now, inflight, callCount, nsearch, ticks>>

\* the switch throws: nothing but the answer happens
InternalError(name, arguments, errorMessage) ==
    /\ resp' = [op |-> "tool", name |-> name, arguments |-> arguments,
                error |-> errorMessage]
    /\ UNCHANGED <<searchCache, searchHistory, now, inflight, callCount, nsearch, ticks>>

\* tool search_web_with_gemini, up to its answer or the await of
\* command.output()
searchWebWithGemini(arguments) ==
    LET err == SearchWebSchemaError(arguments) IN
    IF err # <<>> THEN InternalError("search_web_with_gemini", arguments, err)
    ELSE executeGeminiSearch(arguments.query, UseCacheOf(arguments))

\* a tool name the switch has no case for
unknownTool(name) == InternalError(name, <<>>, <<"Unknown tool", SEP, name>>)

\* ------------------------------------------------- the other handlers, main

listToolsWithoutHistory ==
    /\ resp' = [op |-> "list", kind |-> "tools", names |-> SubSeq(ToolNames, 1, 2)]
    /\ UNCHANGED <<searchCache, searchHistory, now, inflight, callCount, nsearch, ticks>>

\* ListToolsRequestSchema handler
listTools ==
    /\ resp' = [op |-> "list", kind |-> "tools", names |-> ToolNames]
    /\ UNCHANGED <<searchCache, searchHistory, now, inflight, callCount, nsearch, ticks>>

\* ListResourcesRequestSchema handler
listResources ==
    /\ resp' = [op |-> "list", kind |-> "resources", names |-> ResourceUris]
    /\ UNCHANGED <<searchCache, searchHistory, now, inflight, callCount, nsearch, ticks>>

\* ListPromptsRequestSchema handler
listPrompts ==
    /\ resp' = [op |-> "list", kind |-> "prompts", names |-> PromptNames]
    /\ UNCHANGED <<searchCache, searchHistory, now, inflight, callCount, nsearch, ticks>>

\* ReadResourceRequestSchema handler, default: the handler throws
unknownResource(uri) ==
    /\ resp' = [op |-> "read", uri |-> uri, outcome |-> "throw",
                error |-> <<"Unknown resource", SEP, uri>>]
    /\ UNCHANGED <<searchCache, searchHistory, now, inflight, callCount, nsearch, ticks>>

\* arguments?.name || placeholder
ArgumentOr(arguments, name, placeholder) ==
    IF name \in DOMAIN arguments /\ arguments[name] # "" THEN arguments[name]
    ELSE placeholder

\* GetPromptRequestSchema handler: the text filled in, or the default throws
getPrompt(name, arguments) ==
    /\ resp' =
        IF name = "search_analysis"
        THEN [op |-> "prompt", name |-> name, outcome |-> "return",
              text |-> [topic |-> ArgumentOr(arguments, "topic", "[Please specify topic]")]]
        ELSE IF name = "comparative_search"
        THEN [op |-> "prompt", name |-> name, outcome |-> "return",
              text |-> [items |-> ArgumentOr(arguments, "items", "item1, item2"),
                        criteria |-> ArgumentOr(arguments, "criteria",
                                                "features, advantages, disadvantages")]]
        ELSE [op |-> "prompt", name |-> name, outcome |-> "throw",
              error |-> <<"Unknown prompt", SEP, name>>]
    /\ UNCHANGED <<searchCache, searchHistory, now, inflight, callCount, nsearch, ticks>>

\* main(): server.connect(transport) resolves and the server listens, or it
\* rejects and the catch of main() calls Deno.exit(1)
main(outcome) ==
    /\ resp = NoResp
    /\ resp' = IF outcome = "resolved" THEN [op |-> "main", outcome |-> "listening"]
               ELSE [op |-> "exit", code |-> 1]
    /\ UNCHANGED <<searchCache, searchHistory, now, inflight, callCount, nsearch, ticks>>

\* main() has connected and the process has not exited
Listening == resp.op \notin {"none", "exit"}

\* main() and the request handlers of the connected server
NextServer ==
    \/ \E o \in ConnectOutcomes : main(o)
    \/ Listening /\ \E a \in SearchArguments : searchWebWithGemini(a)
    \/ Listening /\ \E i \in 1..Len(inflight), out \in Outputs : commandOutput(i, out)
    \/ Listening /\ \E n \in UnknownTools : unknownTool(n)
    \/ Listening /\ listTools
    \/ Listening /\ listResources
    \/ Listening /\ listPrompts
    \/ Listening /\ readCacheStatus
    \/ Listening /\ \E u \in UnknownUris : unknownResource(u)
    \/ Listening /\ \E n \in {PromptNames[i] : i \in 1..Len(PromptNames)} \cup UnknownPrompts,
                        a \in PromptArguments : getPrompt(n, a)

\* the CallToolRequestSchema handler and the clock
NextTool ==
    \/ \E a \in SearchArguments : searchWebWithGemini(a)
    \/ \E i \in 1..Len(inflight), out \in Outputs : commandOutput(i, out)
    \/ \E a \in ClearArgs : clearCache(a)
    \/ \E l \in Limits, e \in BOOLEAN : viewHistory(l, e)
    \/ \E n \in UnknownTools : unknownTool(n)
    \/ \E d \in Deltas : Tick(d)

\* the CallToolRequestSchema handler, the clock standing still
NextCalls ==
    \/ \E a \in SearchArguments : searchWebWithGemini(a)
    \/ \E i \in 1..Len(inflight), out \in Outputs : commandOutput(i, out)
    \/ \E a \in ClearArgs : clearCache(a)
    \/ \E l \in Limits, e \in BOOLEAN : viewHistory(l, e)
    \/ \E n \in UnknownTools : unknownTool(n)

\* every external invocation exits or fails to start: command.output()
\* settles for the call at each position of the calls in flight
EveryInvocationEnds ==
    \A i \in 1..MaxInflight :
        WF_inflight(\E out \in Outputs : i <= Len(inflight) /\ commandOutput(i, out))

\* search_web_with_gemini, the external program exiting with a nonzero code
NextStderr ==
    \/ \E a \in SearchArguments : searchWebWithGemini(a)
    \/ \E i \in 1..Len(inflight), out \in NonzeroExits : commandOutput(i, out)

\* executeGeminiSearch, the clearing of the cache and the clock
Next ==
    \/ \E q \in Queries, u \in BOOLEAN : executeGeminiSearch(q, u)
    \/ \E i \in 1..Len(inflight), out \in Outputs : commandOutput(i, out)
    \/ \E a \in ClearArgs : clearCache(a)
    \/ \E d \in Deltas : Tick(d)

\* the same with the handlers that read the History and the Cache
NextAll ==
    \/ \E q \in Queries, u \in BOOLEAN : executeGeminiSearch(q, u)
    \/ \E i \in 1..Len(inflight), out \in Outputs : commandOutput(i, out)
    \/ \E a \in ClearArgs : clearCache(a)
    \/ \E d \in Deltas : Tick(d)
    \/ \E l \in Limits, e \in BOOLEAN : viewHistory(l, e)
    \/ readCacheStatus
    \/ readHistoryRecent

\* executeGeminiSearch, the handlers that read the History and the Cache, and
\* the clock
NextRead ==
    \/ \E q \in Queries, u \in BOOLEAN : executeGeminiSearch(q, u)
    \/ \E i \in 1..Len(inflight), out \in Outputs : commandOutput(i, out)
    \/ \E l \in Limits, e \in BOOLEAN : viewHistory(l, e)
    \/ readCacheStatus
    \/ readHistoryRecent
    \/ \E d \in Deltas : Tick(d)

\* executeGeminiSearch with the default useCache, for queries that differ in
\* letter case or whitespace
NextKeys ==
    \/ \E q \in KeyQueries : executeGeminiSearch(q, TRUE)
    \/ \E i \in 1..Len(inflight), out \in Outputs : commandOutput(i, out)

\* searches and reads of gemini://history/recent
NextRecent ==
    \/ \E q \in Queries, u \in BOOLEAN : executeGeminiSearch(q, u)
    \/ \E i \in 1..Len(inflight), out \in Outputs : commandOutput(i, out)
    \/ readHistoryRecent

\* every operation on the stores, the clock standing still
NextHistory ==
    \/ \E q \in Queries, u \in BOOLEAN : executeGeminiSearch(q, u)
    \/ \E i \in 1..Len(inflight), out \in Outputs : commandOutput(i, out)
    \/ \E a \in ClearArgs : clearCache(a)
    \/ \E l \in Limits, e \in BOOLEAN : viewHistory(l, e)
    \/ readCacheStatus
    \/ readHistoryRecent

\* the server from its start, searching and clearing
Spec == Init /\ [][Next]_vars

\* the server with a History at its bound, all handlers
SpecFull == InitFull /\ [][NextAll]_vars

\* the server from its start, searching and read
SpecRead == Init /\ [][NextRead]_vars

\* the server from its start, called through its tools
SpecTool == Init /\ [][NextTool]_vars

\* the process from main() on, every kind of request
SpecServer == Init /\ [][NextServer]_vars

\* the server with about as many records as history/recent shows
SpecRecent == InitRecent /\ [][NextRecent]_vars

\* the server with a History at its bound, every operation on the stores
SpecHistory == InitFull /\ [][NextHistory]_vars

\* the server called through its tools, every external invocation ending
SpecCalls == Init /\ [][NextCalls]_vars /\ EveryInvocationEnds

\* the server searched through its tool, every invocation failing
SpecStderr == Init /\ [][NextStderr]_vars

\* the server from its start, searched for look-alike queries
SpecKeys == Init /\ [][NextKeys]_vars

\* ---------------------------------------------------------------- claims

\* the step starts an executeGeminiSearch(q, u) call that passed validation
CallStarts(q, u) ==
    /\ nsearch' = nsearch + 1
    /\ resp'.op = "search" /\ resp'.query = q /\ resp'.useCache = u

\* command.output() failed: it threw NotFound or the exit code is not 0
Failed(out) == out.kind = "NotFound" \/ out.code # 0

Last(s) == s[Len(s)]

\* every character of q is whitespace (the empty query included)
IsBlank(q) == \A i \in 1..Len(q) : q[i].ch \in WhiteSpace

\* C1: in every reachable state the History holds at most MAX_HISTORY
\* records.
C1_HistoryBounded == Len(searchHistory) <= MAX_HISTORY

\* C2: when the latest call was a successful search(q, useCache=true) and the
\* entry of q has not expired, the next search(q, useCache=true) returns the
\* same text and does not invoke the external program.
C2_RepeatServedFromCache ==
    [][\A q \in Queries :
        ( /\ resp.op = "search" /\ resp.query = q /\ resp.useCache
          /\ resp.outcome = "return"
          /\ (q \in DOMAIN searchCache => now - searchCache[q].timestamp < CACHE_TTL)
          /\ CallStarts(q, TRUE) )
        => /\ resp'.outcome = "return"
           /\ resp'.value = resp.value
           /\ callCount' = callCount
           /\ inflight' = inflight]_vars

\* the first of two searches for a query invoked the program and the second
\* was served from the cache
C2_Witness ==
    /\ resp.op = "search" /\ resp.useCache /\ resp.log = "Cache Hit"
    /\ resp.value = "r2"
    /\ callCount = 1 /\ nsearch = 2

\* C3: search(q, useCache=false) invokes the external program on every call,
\* also when a valid entry for q exists, and none of its steps changes the
\* Cache, whether the invocation succeeds or fails.
C3_UncachedSearchInvokesAndKeepsCache ==
    [][ /\ \A q \in Queries :
            CallStarts(q, FALSE)
            => /\ resp'.outcome = "await"
               /\ callCount' = callCount + 1
               /\ searchCache' = searchCache
        /\ \A i \in 1..Len(inflight), out \in Outputs :
            (~inflight[i].useCache /\ commandOutput(i, out))
            => searchCache' = searchCache]_vars

\* a search with useCache=false has been invoked and has settled while the
\* Cache holds a valid entry for its query
C3_Witness ==
    /\ resp.op = "search" /\ ~resp.useCache
    /\ resp.log = "Gemini Search" /\ resp.outcome \in {"return", "throw"}
    /\ resp.query \in DOMAIN searchCache
    /\ now - searchCache[resp.query].timestamp < CACHE_TTL

\* C4: a search fails with INVALID_QUERY exactly when its query is empty,
\* all whitespace or longer than 500 characters.
C4_InvalidQueryExactly ==
    resp.op = "search"
    => ( (resp.outcome = "throw" /\ resp.value[1] = INVALID_QUERY)
         <=> (IsBlank(resp.query) \/ Length(resp.query) > 500) )

\* a query of exactly 500 characters has passed validation and been answered
C4_Witness ==
    /\ resp.op = "search" /\ resp.query = QMax /\ Length(resp.query) = 500
    /\ resp.outcome = "return"

\* C5: a search that fails validation invokes nothing, leaves the Cache
\* unchanged and appends no History record.
C5_InvalidQueryHasNoEffect ==
    [][ ( /\ resp'.op = "search" /\ resp'.outcome = "throw"
          /\ resp'.value[1] = INVALID_QUERY )
        => /\ searchCache' = searchCache
           /\ searchHistory' = searchHistory
           /\ callCount' = callCount
           /\ inflight' = inflight]_vars

\* a too long query has been rejected while a call is in flight and the Cache
\* and the History are not empty
C5_Witness ==
    /\ resp.op = "search" /\ resp.outcome = "throw" /\ resp.query = QOver
    /\ resp.value[1] = INVALID_QUERY
    /\ searchCache # <<>> /\ searchHistory # <<>> /\ inflight # <<>>

\* C6: when the external invocation fails, the search appends exactly one
\* History record, with success=false and an error text, and the caller gets
\* GEMINI_NOT_FOUND or GEMINI_EXECUTION_ERROR.
C6_FailureRecordedAndTyped ==
    [][\A i \in 1..Len(inflight), out \in Outputs :
        (Failed(out) /\ commandOutput(i, out))
        => /\ Len(searchHistory') = Len(searchHistory) + 1
           /\ SubSeq(searchHistory', 1, Len(searchHistory)) = searchHistory
           /\ Last(searchHistory').query = inflight[i].query
           /\ Last(searchHistory').success = FALSE
           /\ "error" \in DOMAIN Last(searchHistory')
           /\ Last(searchHistory').error # <<>>
           /\ resp'.outcome = "throw"
           /\ resp'.value[1] = IF out.kind = "NotFound" THEN GEMINI_NOT_FOUND
                               ELSE GEMINI_EXECUTION_ERROR]_vars

\* two invocations have failed, one with NotFound and one with a nonzero exit
C6_Witness ==
    /\ Len(searchHistory) >= 2
    /\ ~Last(searchHistory).success
    /\ ~searchHistory[Len(searchHistory) - 1].success
    /\ resp.op = "search" /\ resp.outcome = "throw"
    /\ resp.value[1] = GEMINI_NOT_FOUND
    /\ searchHistory[Len(searchHistory) - 1].error[1] = GEMINI_EXECUTION_ERROR

\* C7, as claimed: for every failed invocation the error text of the History
\* record is the message of the failure the caller receives.
C7_RecordedErrorIsThrownMessage ==
    [][\A i \in 1..Len(inflight), out \in Outputs :
        (Failed(out) /\ commandOutput(i, out))
        => Last(searchHistory').error = resp'.value]_vars

\* C7, amended: after a nonzero exit the History record holds the message of
\* the GEMINI_EXECUTION_ERROR failure the caller receives; after NotFound it
\* holds the message of the runtime's NotFound error, and the caller
\* receives the GEMINI_NOT_FOUND message instead.
C7_RecordedErrorIsCaughtMessage ==
    [][\A i \in 1..Len(inflight), out \in Outputs :
        (Failed(out) /\ commandOutput(i, out))
        => IF out.kind = "NotFound"
           THEN /\ Last(searchHistory').error = out.message
                /\ resp'.value = NotFoundMessage
           ELSE /\ Last(searchHistory').error = resp'.value
                /\ resp'.value = <<GEMINI_EXECUTION_ERROR, SEP>> \o out.stderr]_vars

\* an invocation has failed with NotFound: the record and the caller hold
\* different messages
C7_Witness ==
    /\ resp.op = "search" /\ resp.outcome = "throw"
    /\ resp.value = NotFoundMessage
    /\ searchHistory # <<>>
    /\ ~Last(searchHistory).success
    /\ Last(searchHistory).error = NotFoundText
    /\ Last(searchHistory).error # resp.value

\* C8: a failed external invocation leaves the Cache as it was.
C8_FailureKeepsCache ==
    [][\A i \in 1..Len(inflight), out \in Outputs :
        (Failed(out) /\ commandOutput(i, out))
        => searchCache' = searchCache]_vars

\* a search with useCache=true has failed while the Cache holds an expired
\* entry for its query
C8_Witness ==
    /\ resp.op = "search" /\ resp.useCache /\ resp.outcome = "throw"
    /\ resp.log = "Gemini Search"
    /\ resp.query \in DOMAIN searchCache
    /\ now - searchCache[resp.query].timestamp >= CACHE_TTL

\* C9: search(q, useCache=true) is served from the entry of q while its age
\* is below CACHE_TTL, and invokes the external program once the age is
\* CACHE_TTL or more.
C9_ServedUntilTTL ==
    [][\A q \in Queries :
        (q \in DOMAIN searchCache /\ CallStarts(q, TRUE))
        => IF now - searchCache[q].timestamp < CACHE_TTL
           THEN /\ resp'.outcome = "return"
                /\ resp'.value = searchCache[q].result
                /\ callCount' = callCount
           ELSE /\ resp'.outcome = "await"
                /\ callCount' = callCount + 1]_vars

\* a search found an entry at the age of exactly CACHE_TTL and invoked the
\* external program
C9_Witness ==
    /\ resp.op = "search" /\ resp.useCache /\ resp.outcome = "await"
    /\ resp.query \in DOMAIN searchCache
    /\ now - searchCache[resp.query].timestamp = CACHE_TTL
    /\ callCount = 1

\* C10: a successful invocation with useCache=true stores its result under q
\* with the current time, replacing the entry of q and no other, and the
\* search(q, useCache=true) that follows at once is served that result.
C10_SuccessStoresResult ==
    [][ /\ \A i \in 1..Len(inflight), out \in Outputs :
            (~Failed(out) /\ inflight[i].useCache /\ commandOutput(i, out))
            => /\ DOMAIN searchCache' = DOMAIN searchCache \cup {inflight[i].query}
               /\ searchCache'[inflight[i].query]
                    = [result |-> out.stdout, timestamp |-> now]
               /\ \A k \in DOMAIN searchCache \ {inflight[i].query} :
                    searchCache'[k] = searchCache[k]
        /\ \A q \in Queries :
            ( /\ resp.op = "search" /\ resp.query = q /\ resp.useCache
              /\ resp.log = "Gemini Search" /\ resp.outcome = "return"
              /\ q \in DOMAIN searchCache /\ searchCache[q].timestamp = now
              /\ CallStarts(q, TRUE) )
            => /\ resp'.log = "Cache Hit"
               /\ resp'.value = resp.value]_vars

\* an expired entry has been replaced by the result of a new invocation, and
\* the search that followed at once was served the new result
C10_Witness ==
    /\ resp.op = "search" /\ resp.useCache /\ resp.log = "Cache Hit"
    /\ resp.value = "r2"
    /\ searchHistory[1].timestamp = 1
    /\ searchCache[resp.query] = [result |-> "r2", timestamp |-> now]
    /\ now = 1 + CACHE_TTL
    /\ resp.query = QA

\* C11: a search step that appends a record to a History of MAX_HISTORY
\* records leaves MAX_HISTORY records: the oldest is gone, the other 99 are in
\* their order and the new record is last.
C11_AppendAtBoundEvictsOldest ==
    [][ (Len(searchHistory) = MAX_HISTORY /\ searchHistory' # searchHistory)
        => /\ Len(searchHistory') = MAX_HISTORY
           /\ SubSeq(searchHistory', 1, MAX_HISTORY - 1) = Tail(searchHistory)
           /\ Last(searchHistory').timestamp = now
           /\ Last(searchHistory').query = resp'.query]_vars

\* h2 is h with one record for query q appended, made at time t with
\* success = ok, and at most the oldest record of h evicted
AppendedOne(h, h2, q, ok, t) ==
    /\ h2 # <<>>
    /\ Last(h2).query = q /\ Last(h2).success = ok /\ Last(h2).timestamp = t
    /\ \/ SubSeq(h2, 1, Len(h2) - 1) = h
       \/ h # <<>> /\ SubSeq(h2, 1, Len(h2) - 1) = Tail(h)

\* C12: a search call that passed validation appends one History record by
\* the time it completes, and only then: a cache hit appends one with
\* success=true in its only step; an invocation appends none when it starts
\* and one when it settles, success=true on exit code 0 and success=false on
\* a failure.
C12_OneRecordPerSearch ==
    [][ /\ \A q \in Queries, u \in BOOLEAN :
            CallStarts(q, u)
            => IF resp'.outcome = "return"
               THEN AppendedOne(searchHistory, searchHistory', q, TRUE, now)
               ELSE resp'.outcome = "await" /\ searchHistory' = searchHistory
        /\ \A i \in 1..Len(inflight), out \in Outputs :
            commandOutput(i, out)
            => AppendedOne(searchHistory, searchHistory', inflight[i].query,
                           Succeeded(out), now)]_vars

\* two searches have completed, the first by a successful invocation and the
\* second by a failed one, and the History holds one record for each
C12_Witness ==
    /\ nsearch = 2 /\ inflight = <<>> /\ callCount = 2
    /\ Len(searchHistory) = 2
    /\ searchHistory[1].success /\ ~searchHistory[2].success
    /\ resp.op = "search" /\ resp.outcome = "throw"

\* the query argument given to clear_gemini_search_cache
GivenQuery(args) == CHOOSE q \in args : TRUE

\* C13: clear_gemini_search_cache with a query q that is a key of the Cache
\* reports that it was cleared, q is absent afterwards and the search(q,
\* useCache=true) that follows invokes the external program; with a q that is
\* not a key it reports that q was not found and the Cache is unchanged.
C13_ClearOneKey ==
    [][ /\ \A args \in ClearArgs :
            (args # {} /\ clearCache(args))
            => IF GivenQuery(args) \in DOMAIN searchCache
               THEN /\ resp'.text = "Cleared cache for query"
                    /\ GivenQuery(args) \notin DOMAIN searchCache'
               ELSE /\ resp'.text = "was not found in cache"
                    /\ searchCache' = searchCache
        /\ \A q \in Queries :
            ( /\ resp.op = "clear" /\ resp.args = {q}
              /\ resp.text = "Cleared cache for query"
              /\ CallStarts(q, TRUE) )
            => resp'.outcome = "await" /\ callCount' = callCount + 1]_vars

\* C14: clear_gemini_search_cache with a query argument, the empty string
\* included, removes at most the entry under that key and leaves every other
\* entry in place.
C14_GivenQueryClearsOneKey ==
    [][\A args \in ClearArgs :
        (args # {} /\ clearCache(args))
        => \A k \in DOMAIN searchCache \ {GivenQuery(args)} :
            k \in DOMAIN searchCache' /\ searchCache'[k] = searchCache[k]]_vars

\* C15: clear_gemini_search_cache without a query reports the number of
\* entries the Cache held before the call, 0 for an empty Cache, and leaves
\* the Cache empty.
C15_ClearAllReportsCount ==
    [][ clearCache({})
        => /\ resp'.text = "Cleared all cache"
           /\ resp'.size = Cardinality(DOMAIN searchCache)
           /\ searchCache' = <<>>]_vars

\* a Cache of two entries has been cleared by a call without a query
C15_Witness ==
    /\ resp.op = "clear" /\ resp.args = {} /\ resp.size = 2
    /\ searchCache = <<>>
    /\ inflight = <<>> /\ nsearch = 2

\* C16: clear_gemini_search_cache, for one key or for all, leaves the History
\* as it was: the same records in the same order.
C16_ClearKeepsHistory ==
    [][\A args \in ClearArgs : clearCache(args) => searchHistory' = searchHistory]_vars

\* a Cache of one entry has been cleared while the History holds a
\* successful and a failed record
C16_Witness ==
    /\ resp.op = "clear" /\ resp.args = {} /\ resp.size = 1
    /\ QA \notin DOMAIN searchCache
    /\ Len(searchHistory) = 2
    /\ searchHistory[1].success /\ ~searchHistory[2].success

\* the positions of the records view_search_history may show
Eligible(h, includeErrors) == {i \in 1..Len(h) : includeErrors \/ h[i].success}

\* the position of the k-th newest of them
KthNewest(h, includeErrors, k) ==
    CHOOSE j \in Eligible(h, includeErrors) :
        Cardinality({x \in Eligible(h, includeErrors) : x > j}) = k - 1

\* C17: view_search_history(limit, includeErrors) shows the min(limit, n)
\* most recent records, newest first, where n counts every record when
\* includeErrors is true and the successful records when it is false: the k-th
\* line is the k-th newest of the counted records.  (The History is as the
\* handler read it for as long as its answer is the latest.)
C17_ViewShowsNewestFiltered ==
    resp.op = "view"
    => LET n == Cardinality(Eligible(searchHistory, resp.includeErrors))
           shown == resp.recent
       IN  /\ Len(shown) = Min(resp.limit, n)
           /\ \A k \in 1..Len(shown) :
                /\ shown[k] = searchHistory[KthNewest(searchHistory, resp.includeErrors, k)]
                /\ resp.text[k].n = k
                /\ resp.text[k].query = shown[k].query
                /\ resp.text[k].status = IF shown[k].success THEN "ok" ELSE "failed"
           /\ (shown = <<>> => resp.text[1] = [message |-> "No search history found"])

\* with includeErrors=false and limit 2, a History of a success, a failure and
\* a success is shown as its third and its first record
C17_Witness ==
    /\ resp.op = "view" /\ ~resp.includeErrors /\ resp.limit = 2
    /\ Len(searchHistory) = 3
    /\ searchHistory[1].success /\ ~searchHistory[2].success /\ searchHistory[3].success
    /\ resp.recent = <<searchHistory[3], searchHistory[1]>>

\* C18: view_search_history, with either value of includeErrors, and the
\* reads of gemini://cache/status and gemini://history/recent leave the Cache
\* and the History as they were.
C18_ReadsChangeNothing ==
    [][ (resp'.op \in {"view", "read"} /\ now' = now)
        => /\ searchCache' = searchCache
           /\ searchHistory' = searchHistory
           /\ inflight' = inflight /\ callCount' = callCount]_vars

\* gemini://history/recent has been read while the Cache holds an entry and
\* the History holds a successful and then a failed record
C18_Witness ==
    /\ resp.op = "read" /\ resp.uri = "gemini://history/recent"
    /\ resp.showing = 2
    /\ resp.history[1].log = searchHistory[2] /\ resp.history[2].log = searchHistory[1]
    /\ searchHistory[1].success /\ ~searchHistory[2].success
    /\ searchCache # <<>>

\* C19: every answer to a tool call with isError carries a Type, a Details
\* and a Solution chosen by the Type, whatever the kind of the error: an
\* invalid query, NotFound, a failed execution, an unknown tool or arguments
\* the schema refuses.
C19_ErrorResponseIsStructured ==
    LET response == ToolResponse(resp) IN
    response.isError
    => /\ {"Type", "Details", "Solution"} \subseteq DOMAIN response.text
       /\ response.text.Type = <<GEMINI_NOT_FOUND>>
            => response.text.Solution = NotFoundSolution
       /\ response.text.Type = <<INVALID_QUERY>>
            => response.text.Solution = InvalidQuerySolution

\* the search_web_with_gemini call that resp is the outcome of was given the
\* query q
AnsweredQuery(q) ==
    \/ resp.op = "search" /\ resp.outcome = "throw" /\ resp.query = q
    \/ /\ resp.op = "tool" /\ resp.name = "search_web_with_gemini"
       /\ "query" \in DOMAIN resp.arguments /\ resp.arguments.query = q

\* C20: a search_web_with_gemini call whose query is empty, all whitespace or
\* longer than 500 characters is answered by an error response of Type
\* INVALID_QUERY.
C20_InvalidQueryResponse ==
    \A q \in Queries :
        (AnsweredQuery(q) /\ (IsBlank(q) \/ Length(q) > 500))
        => LET response == ToolResponse(resp) IN
           /\ response.isError
           /\ "Type" \in DOMAIN response.text
           /\ response.text.Type = <<INVALID_QUERY>>

\* the elements of a sequence
Range(s) == {s[i] : i \in 1..Len(s)}

\* resp is the outcome of a request that names no registered tool, resource
\* or prompt
NamesUnregistered(r) ==
    \/ r.op = "tool" /\ r.name \notin Range(ToolNames)
    \/ r.op = "read" /\ r.uri \notin Range(ResourceUris)
    \/ r.op = "prompt" /\ r.name \notin Range(PromptNames)

\* the request left its handler as a thrown exception
HandlerThrew(r) ==
    r.op \in {"read", "prompt"} /\ "outcome" \in DOMAIN r /\ r.outcome = "throw"

\* C21: a request that names an unregistered tool, resource URI or prompt is
\* answered by a returned error response; it never leaves its handler as a
\* thrown exception.
C21_UnknownOperationAnswered ==
    NamesUnregistered(resp) => ~HandlerThrew(resp)

\* the step handles a request that reads or changes the Cache or the
\* History: a clear, a view, a resource read, or the start of a search with
\* the cache check
TouchesStores ==
    \/ resp' # resp /\ resp'.op \in {"clear", "view", "read"}
    \/ \E q \in Queries : CallStarts(q, TRUE)

\* C22: request handling is serial: while a search waits for the external
\* program, no other request reads or changes the Cache or the History before
\* that search has completed.
C22_RequestsAreSerial ==
    [][Len(inflight) = 1 => ~TouchesStores]_vars

\* C23: the Cache is keyed by the raw query: a search(q, useCache=true) is
\* served only from the entry stored under exactly q, and a successful
\* invocation for q writes the entry of exactly q, so that queries differing
\* in letter case or in leading or trailing whitespace have entries of their
\* own.
C23_RawQueryKeys ==
    [][ /\ \A q \in KeyQueries :
            (CallStarts(q, TRUE) /\ resp'.outcome = "return")
            => /\ q \in DOMAIN searchCache
               /\ resp'.value = searchCache[q].result
        /\ \A q \in KeyQueries :
            (CallStarts(q, TRUE) /\ q \notin DOMAIN searchCache)
            => resp'.outcome = "await" /\ callCount' = callCount + 1
        /\ \A i \in 1..Len(inflight), out \in Outputs :
            (Succeeded(out) /\ commandOutput(i, out))
            => /\ DOMAIN searchCache' = DOMAIN searchCache \cup {inflight[i].query}
               /\ \A k \in DOMAIN searchCache \ {inflight[i].query} :
                    searchCache'[k] = searchCache[k]]_vars

\* with a valid entry for "a" in the Cache, a search for "a " has invoked the
\* external program and the two queries have an entry each
C23_Witness ==
    /\ resp.op = "search" /\ resp.query = QTrailing /\ resp.outcome = "return"
    /\ resp.log = "Gemini Search" /\ resp.value = "r2"
    /\ DOMAIN searchCache = {QA, QTrailing}
    /\ searchCache[QA].result = "r1" /\ searchCache[QTrailing].result = "r2"

\* the queries whose entry is valid at time t
ValidKeys(cache, t) == {q \in DOMAIN cache : CacheHit(cache, q, t)}

\* C24: an expired entry is absent for every reporting operation: clearing
\* its query reports "not found", clearing everything does not count it, and
\* cache/status neither counts nor lists it.
C24_ExpiredIsAbsent ==
    [][resp' # resp =>
        /\ (resp'.op = "clear" /\ "existed" \in DOMAIN resp')
            => resp'.existed = ((CHOOSE q \in resp'.args : TRUE) \in ValidKeys(searchCache, now))
        /\ (resp'.op = "clear" /\ "size" \in DOMAIN resp')
            => resp'.size = Cardinality(ValidKeys(searchCache, now))
        /\ (resp'.op = "read" /\ resp'.uri = "gemini://cache/status")
            => /\ resp'.totalEntries = Cardinality(ValidKeys(searchCache, now))
               /\ {e.query : e \in resp'.entries} = ValidKeys(searchCache, now)]_vars

\* C25: with n records in the History, gemini://history/recent answers
\* total = n, showing = min(20, n) and the last min(20, n) records, newest
\* first, failed ones included.
C25_RecentShowsLastTwenty ==
    (resp.op = "read" /\ resp.uri = "gemini://history/recent")
    => /\ resp.total = Len(searchHistory)
       /\ resp.showing = Min(RECENT_SHOWN, Len(searchHistory))
       /\ Len(resp.history) = resp.showing
       /\ \A k \in 1..resp.showing :
            /\ resp.history[k].log = searchHistory[Len(searchHistory) + 1 - k]
            /\ resp.history[k].timestamp = ISOString(searchHistory[Len(searchHistory) + 1 - k].timestamp)

\* history/recent has answered for a History of more than 20 records whose
\* newest is a failed one
C25_Witness ==
    /\ resp.op = "read" /\ resp.uri = "gemini://history/recent"
    /\ resp.total = RECENT_SHOWN + 1
    /\ resp.showing = RECENT_SHOWN
    /\ ~resp.history[1].log.success
    /\ resp.history[2].log.success

\* C26: list-tools, list-resources and list-prompts answer fixed catalogs,
\* whatever the Cache and the History hold, and change neither: the three
\* tools search_web_with_gemini, clear_gemini_search_cache and
\* view_search_history in that order, the two resources and the two prompts.
C26_ListsAreFixedCatalogs ==
    [][resp'.op = "list" =>
        /\ resp'.kind = "tools" =>
            resp'.names = <<"search_web_with_gemini", "clear_gemini_search_cache",
                            "view_search_history">>
        /\ resp'.kind = "resources" =>
            Range(resp'.names) = {"gemini://cache/status", "gemini://history/recent"}
            /\ Len(resp'.names) = 2
        /\ resp'.kind = "prompts" =>
            Range(resp'.names) = {"search_analysis", "comparative_search"}
            /\ Len(resp'.names) = 2
        /\ searchCache' = searchCache
        /\ searchHistory' = searchHistory]_vars

\* the tools have been listed by a server that has searched: the Cache holds
\* an entry and the History two records
C26_Witness ==
    /\ resp.op = "list" /\ resp.kind = "tools"
    /\ searchCache # <<>>
    /\ Len(searchHistory) >= 2

\* r is the outcome of a tool call that raised an error
ToolCallFailed(r) ==
    \/ r.op = "tool"
    \/ r.op = "search" /\ r.outcome = "throw"

\* C27: the process exits with a non-zero status only from a failed start
\* (server.connect rejecting in main); an error raised while a tool call is
\* handled, an internal one included, is answered with isError and leaves the
\* process running.
C27_OnlyStartupFailureExits ==
    [][ /\ resp'.op = "exit" => (resp = NoResp /\ resp'.code # 0)
        /\ ToolCallFailed(resp') => (ToolResponse(resp').isError /\ Listening')]_vars

\* an unknown tool has been answered with an internal error by a process that
\* is still listening after a failed search
C27_Witness ==
    /\ resp.op = "tool" /\ resp.name \in UnknownTools
    /\ ToolResponse(resp).isError
    /\ Listening
    /\ \E i \in 1..Len(searchHistory) : ~searchHistory[i].success

\* h2 is h1 with its d oldest records dropped and at most one record added at
\* the end
DropsAndAppends(h1, h2, d) ==
    LET kept == SubSeq(h1, d + 1, Len(h1))
    IN  \/ h2 = kept
        \/ Len(h2) = Len(kept) + 1 /\ SubSeq(h2, 1, Len(kept)) = kept

\* C28: the History is append-only with eviction at the head: every
\* operation leaves it equal to the old History with zero or more of its
\* oldest records dropped and at most one new record at the end.
C28_HistoryAppendOnly ==
    [][\E d \in 0..Len(searchHistory) :
          DropsAndAppends(searchHistory, searchHistory', d)]_vars

\* a search has been recorded in a full History: the oldest record is gone
\* and the new one is the last
C28_Witness ==
    /\ resp.op = "search" /\ resp.log # "none"
    /\ Len(searchHistory) = MAX_HISTORY
    /\ searchHistory[1].timestamp = 2
    /\ searchHistory[MAX_HISTORY - 1].timestamp = MAX_HISTORY
    /\ searchHistory[MAX_HISTORY].query = resp.query

\* the entry of q was written by this step
EntryWritten(q) ==
    /\ q \in DOMAIN searchCache'
    /\ q \notin DOMAIN searchCache \/ searchCache'[q] # searchCache[q]

\* this step is the successful end of an invocation for q with useCache=true
InvocationSucceeded(q) ==
    /\ Len(inflight') < Len(inflight)
    /\ resp'.op = "search" /\ resp'.query = q /\ resp'.useCache
    /\ resp'.log = "Gemini Search" /\ resp'.outcome = "return"

\* C29: a successful invocation with useCache=true writes its cache entry and
\* appends its success record in one step: no state between two steps has the
\* new entry without the record, or the record without the entry.
C29_WriteAndAppendTogether ==
    [][\A q \in Queries :
        /\ EntryWritten(q) =>
            AppendedOne(searchHistory, searchHistory', q, TRUE, searchCache'[q].timestamp)
        /\ InvocationSucceeded(q) =>
            /\ AppendedOne(searchHistory, searchHistory', q, TRUE, now)
            /\ q \in DOMAIN searchCache'
            /\ searchCache'[q] = [result |-> resp'.value, timestamp |-> now]]_vars

\* an invocation with useCache=true has ended well after the clock moved: the
\* entry and the newest record carry its query and its time
C29_Witness ==
    /\ resp.op = "search" /\ resp.useCache
    /\ resp.log = "Gemini Search" /\ resp.outcome = "return"
    /\ ticks > 0
    /\ resp.query \in DOMAIN searchCache
    /\ searchCache[resp.query] = [result |-> resp.value, timestamp |-> now]
    /\ Last(searchHistory) = [query |-> resp.query, timestamp |-> now, success |-> TRUE]

\* an invocation for q with useCache=true is waiting for the external program
Waiting(q) == \E i \in 1..Len(inflight) : inflight[i].query = q /\ inflight[i].useCache

\* C30: a search(q, useCache=true) that starts while another one for q waits
\* for the external program, no valid entry for q in the Cache, does not
\* invoke the external program again.
C30_OverlapInvokesOnce ==
    [][\A q \in Queries :
        (CallStarts(q, TRUE) /\ Waiting(q) /\ ~CacheHit(searchCache, q, now))
        => callCount' = callCount]_vars

\* resp is the answer of clear_gemini_search_cache without a query
ClearedAll(r) == r.op = "clear" /\ "size" \in DOMAIN r

\* C31: after clear_gemini_search_cache without a query has returned, the
\* Cache holds only entries of searches started after it: a search that was
\* waiting for the external program when the clear ran writes no entry when
\* the program exits.
C31_ClearAllIsFinal ==
    [][(ClearedAll(resp) /\ Len(inflight') < Len(inflight))
        => searchCache' = searchCache]_vars

\* this step serves search(q, useCache=true) from the Cache
HitFor(q) == CallStarts(q, TRUE) /\ resp'.log = "Cache Hit"

\* C32: a cache hit leaves the Cache as it is, the entry's timestamp
\* included: a hit happens only before the time of writing plus CACHE_TTL,
\* however many hits came before, and a hit that follows a hit for the same
\* query with no write, clear or expiry between them returns the same value.
C32_HitLeavesCacheUnchanged ==
    [][\A q \in Queries :
        HitFor(q) =>
            /\ searchCache' = searchCache
            /\ now < searchCache'[q].timestamp + CACHE_TTL
            /\ resp'.value = searchCache'[q].result
            /\ (resp.op = "search" /\ resp.log = "Cache Hit" /\ resp.query = q)
                => resp'.value = resp.value]_vars

\* the entry written at time 1 has been served twice, the second time
\* CACHE_TTL - 1 later, and still carries time 1
C32_Witness ==
    /\ resp.op = "search" /\ resp.log = "Cache Hit" /\ resp.query = QA
    /\ Len(searchHistory) = 3
    /\ searchHistory[2].timestamp = 1
    /\ searchHistory[3].timestamp = CACHE_TTL
    /\ searchCache[QA] = [result |-> "r1", timestamp |-> 1]
    /\ now = CACHE_TTL

\* this step ends, with exit code 0 and standard output text, an invocation
\* made for q by a search with useCache=true
InvocationPrinted(q, text) ==
    \E i \in 1..Len(inflight) :
        /\ inflight[i] = [query |-> q, useCache |-> TRUE]
        /\ inflight' = RemoveAt(inflight, i)
        /\ resp'.op = "search" /\ resp'.query = q /\ resp'.useCache
        /\ resp'.log = "Gemini Search" /\ resp'.outcome = "return"
        /\ resp'.value = text

Calls == [query : Queries, useCache : BOOLEAN]

\* resp is the answer to call c once its invocation has ended
Answered(c) ==
    /\ resp.op = "search" /\ resp.query = c.query /\ resp.useCache = c.useCache
    /\ resp.log = "Gemini Search" /\ resp.outcome \in {"return", "throw"}

\* C34: provided every external invocation ends, every call-tool request
\* gets one response, a success payload or an isError response: a request
\* waits only at the external invocation, each waiting call is answered when
\* its invocation ends, one call per step, and every other request is
\* answered in its own step.
C34_EveryCallAnswered ==
    /\ \A c \in Calls : (c \in Range(inflight)) ~> Answered(c)
    /\ [][ /\ resp'.op \in {"search", "tool", "clear", "view"}
                => IF Len(inflight') > Len(inflight)
                   THEN /\ resp'.op = "search" /\ resp'.outcome = "await"
                        /\ Len(inflight') = Len(inflight) + 1
                   ELSE /\ resp'.op = "search" => resp'.outcome \in {"return", "throw"}
                        /\ ToolResponse(resp').isError
                            = (resp'.op = "tool" \/ (resp'.op = "search" /\ resp'.outcome = "throw"))
           /\ Len(inflight') < Len(inflight)
                => /\ Len(inflight') = Len(inflight) - 1
                   /\ \E i \in 1..Len(inflight) :
                        /\ inflight' = RemoveAt(inflight, i)
                        /\ resp'.op = "search" /\ resp'.query = inflight[i].query
                        /\ resp'.useCache = inflight[i].useCache
                        /\ resp'.log = "Gemini Search"
                        /\ resp'.outcome \in {"return", "throw"} ]_vars

\* a call that waited with another one has been answered with an error; the
\* other one still waits
C34_Witness ==
    /\ resp.op = "search" /\ resp.log = "Gemini Search" /\ resp.outcome = "throw"
    /\ ToolResponse(resp).isError
    /\ Len(inflight) = 1
    /\ callCount = 2

\* C35: when the external program exits with a nonzero code and
\* standard-error text s, the tool's error response has Type
\* GEMINI_EXECUTION_ERROR and Details equal to s, for every s: the empty text
\* and texts that contain ": " included.
C35_DetailsAreStderr ==
    [][\A i \in 1..Len(inflight), out \in NonzeroExits :
        commandOutput(i, out)
        => /\ ToolResponse(resp').isError
           /\ ToolResponse(resp').text.Type = <<GEMINI_EXECUTION_ERROR>>
           /\ ToolResponse(resp').text.Details = out.stderr]_vars

\* the error response to an exit with a standard-error text that holds the
\* separator twice
C35_Witness ==
    /\ resp.op = "search" /\ resp.outcome = "throw" /\ resp.log = "Gemini Search"
    /\ ToolResponse(resp).text.Type = <<GEMINI_EXECUTION_ERROR>>
    /\ ToolResponse(resp).text.Details = <<"HTTP 429", SEP, "Error", SEP, "quota exceeded">>

====
